---- MODULE Spec2Model ----
(***************************************************************************)
(* Handoff routing of the travel agent: the graph of src/app/graph.py      *)
(* (supervisor, hotel_advisor, flights_advisor, human), the three agent    *)
(* nodes of src/app/agents, and the driver invoke_graph of src/main.py.    *)
(*                                                                         *)
(* One thread of conversation is one key of the MemorySaver.  A checkpoint *)
(* holds the transcript ("messages") and the trigger channels that have    *)
(* been written and not yet consumed; the nodes whose trigger is pending   *)
(* are the snapshot's "next".                                              *)
(***************************************************************************)
EXTENDS Integers, Sequences, FiniteSets, TLC

\* ------------------------------------------------------------------ bounds
Threads == {"t1", "t2"}
Inputs == {"u1"}
Replies == {"r1"}
\* invoke_graph is not called once the checkpointer holds MaxMsgs messages
MaxMsgs == 4
\* graph.stream is called without a recursion_limit, so the engine's default
\* budget of super-steps applies; the model scales it down to a small value.
RecursionLimit == 3
\* number of handoffs the reasoning engine may request in one turn
MaxRequests == 2
\* length of the transcripts human_node is tried on by itself
MaxProbeLen == 2

\* --------------------------------------------------------------- constants
Agents == {"supervisor", "hotel_advisor", "flights_advisor"}
Nodes == Agents \cup {"human"}
NodeOrder == <<"supervisor", "hotel_advisor", "flights_advisor", "human">>
\* a handoff target that no node of the graph has
UnknownNames == {"billing_advisor"}
NoInput == "None"
NoOutput == "NoOutput"

VARIABLES
  storage,   \* checkpointer: thread_id -> checkpoint (a dict: absent keys are absent)
  status,    \* per thread: "idle", "running", "interrupt", "error"
  resume,    \* per thread: the resume value of the Command given to graph.stream
  steps,     \* per thread: super-steps done in the running call
  output,    \* per thread: the value of the interrupt the call ended with
  cmd,       \* per thread: the last Command the engine applied
  asked,     \* per thread: the handoffs the reasoning engine asked for in that turn
  tools,     \* per agent: the targets of its handoff tools
  phase      \* "assembling", "ready", "ConfigurationError"

vars == <<storage, status, resume, steps, output, cmd, asked, tools, phase>>

\* ---------------------------------------------------------------- messages
HumanMessage(content) == [type |-> "human", content |-> content, name |-> "user", id |-> 0]
AIMessage(content, name) == [type |-> "ai", content |-> content, name |-> name, id |-> 0]

\* a channel without reducer: the update replaces the transcript
add_messages_replace(left, right) == right

\* The reducer of MessagesState: a message of the update whose id is already
\* in the transcript replaces that message in place, any other message is
\* appended; id 0 is "no id yet" and such a message gets a fresh id.
\* (The intermediate transcript is bound by a quantifier so that it is
\* evaluated once per message.)
RECURSIVE add_messages(_, _)
add_messages(left, right) ==
  IF right = <<>> THEN left
  ELSE LET m == Head(right)
           hit == {i \in 1..Len(left) : m.id # 0 /\ left[i].id = m.id}
           merged == IF hit # {}
                     THEN [left EXCEPT ![CHOOSE i \in hit : TRUE] = m]
                     ELSE Append(left, IF m.id = 0 THEN [m EXCEPT !.id = Len(left) + 1] ELSE m)
       IN CHOOSE r \in {add_messages(l, t) : l \in {merged}, t \in {Tail(right)}} : TRUE

\* -------------------------------------------------------------- checkpoints
EmptyCheckpoint == [messages |-> <<>>, channels |-> {}]

get_tuple(store, thread_id) ==
  IF thread_id \in DOMAIN store THEN store[thread_id] ELSE EmptyCheckpoint

\* a saver that files every checkpoint under one key
put_shared(store, thread_id, checkpoint) ==
  [k \in DOMAIN store \cup {"t1"} |-> IF k = "t1" THEN checkpoint ELSE store[k]]

put(store, thread_id, checkpoint) ==
  [k \in DOMAIN store \cup {thread_id} |->
     IF k = thread_id THEN checkpoint ELSE store[k]]

START == "__start__"
\* the entry edge set to an advisor
edges_to_advisor == {<<START, "flights_advisor">>}

\* builder.add_edge(START, "supervisor"): the only static edge
edges == {<<START, "supervisor">>}

\* trigger channels, as the fields of their colon-separated names
StartChannel(node) == <<"start", node>>
BranchChannel(src, dst) == <<"branch", src, "__self__", dst>>
Target(ch) == ch[Len(ch)]
TriggersOf(cp, node) == {ch \in cp.channels : Target(ch) = node}

RECURSIVE SeqOfSet(_)
SeqOfSet(S) ==
  IF S = {} THEN <<>>
  ELSE LET x == CHOOSE y \in S : TRUE IN <<x>> \o SeqOfSet(S \ {x})

\* StateSnapshot.next: the nodes with a pending trigger, in declaration order
NextOf(cp) ==
  LET pending == {n \in Nodes : TriggersOf(cp, n) # {}}
      F[i \in 0..Len(NodeOrder)] ==
        IF i = 0 THEN <<>>
        ELSE IF NodeOrder[i] \in pending THEN Append(F[i-1], NodeOrder[i]) ELSE F[i-1]
  IN F[Len(NodeOrder)]

get_state(thread_id) ==
  LET cp == get_tuple(storage, thread_id)
  IN [values |-> cp.messages, next |-> NextOf(cp)]

\* number of messages the checkpointer holds for the threads of T
RECURSIVE StoredMessages(_)
StoredMessages(T) ==
  IF T = {} THEN 0
  ELSE LET t == CHOOSE x \in T : TRUE
       IN Len(get_state(t).values) + StoredMessages(T \ {t})

\* ------------------------------------------------------------------ Command
Command(update, goto, node, handoff) ==
  [update |-> update, goto |-> goto, node |-> node, handoff |-> handoff]
NoCommand == [update |-> <<>>, goto |-> <<>>, node |-> "none", handoff |-> FALSE]

\* the update replaces the transcript instead of being reduced into it
ApplyCommand_overwrite(cp, c) ==
  [messages |-> c.update,
   channels |-> (cp.channels \ {ch \in cp.channels : ch[Len(ch)] = c.node})
                  \cup {<<"branch", c.node, "__self__", c.goto[i]>> : i \in 1..Len(c.goto)}]

\* the engine applies a Command of node: reduce the update into the transcript,
\* consume the node's triggers, write one branch channel per destination
ApplyCommand(cp, c) ==
  [messages |-> add_messages(cp.messages, c.update),
   channels |-> (cp.channels \ TriggersOf(cp, c.node))
                  \cup {BranchChannel(c.node, c.goto[i]) : i \in 1..Len(c.goto)}]

\* ------------------------------------------------------------ handoff tools
\* a tool factory that accepts any target name
make_handoff_tool_unchecked(agent_name) == [error |-> "none", target |-> agent_name]

\* make_handoff_tool(agent_name=...): the tool is bound to its target when the
\* tool lists are built
make_handoff_tool(agent_name) ==
  IF agent_name \in Nodes
  THEN [error |-> "none", target |-> agent_name]
  ELSE [error |-> "ConfigurationError", target |-> agent_name]

\* the tool, invoked in a turn of agent node: control goes to the target and
\* the update is what the agent emitted in the turn
handoff_to_agent(tool, emitted, node) == Command(emitted, <<tool.target>>, node, TRUE)

supervisor_tools == {"flights_advisor", "hotel_advisor"}
\* the flights advisor also holds a handoff tool to its peer
flights_advisor_tools_with_peer == {"supervisor", "hotel_advisor"}
flights_advisor_tools == {"supervisor"}
hotel_advisor_tools == {"supervisor"}
DeclaredTools ==
  [a \in Agents |-> CASE a = "supervisor" -> supervisor_tools
                      [] a = "flights_advisor" -> flights_advisor_tools
                      [] a = "hotel_advisor" -> hotel_advisor_tools]

\* --------------------------------------------------------- reasoning engine
\* What the model (the LLM) decides in one turn of an agent: the messages it
\* emits and the handoffs it asks for, in order, each target once.
SeqsUpTo(S, n) ==
  {q \in UNION {[1..k -> S] : k \in 0..n} : \A i, j \in 1..Len(q) : i # j => q[i] # q[j]}
Emissions(agent) == {<<AIMessage(r, agent)>> : r \in Replies}
Decisions(agent) ==
  [emitted : Emissions(agent), requests : SeqsUpTo(tools[agent], MaxRequests)]

\* every requested handoff is served (parallel tool calls)
react_agent_parallel(agent, state, d) ==
  LET own == add_messages(state, d.emitted)
      emitted == SubSeq(own, Len(state) + 1, Len(own))
  IN IF d.requests # <<>>
     THEN [parent |-> TRUE, command |-> Command(emitted, d.requests, agent, TRUE),
           messages |-> own]
     ELSE [parent |-> FALSE, command |-> NoCommand, messages |-> own]

\* create_react_agent(model.bind_tools(tools, parallel_tool_calls=False), ...)
\* .invoke(state): the agent's own graph reduces the emitted messages into its
\* copy of the transcript; the first handoff tool that runs leaves the agent
\* with its Command for the parent graph, so a second request is never served.
react_agent(agent, state, d) ==
  LET own == add_messages(state, d.emitted)
      emitted == SubSeq(own, Len(state) + 1, Len(own))
  IN IF d.requests # <<>>
     THEN [parent |-> TRUE,
           command |-> handoff_to_agent(make_handoff_tool(Head(d.requests)), emitted, agent),
           messages |-> own]
     ELSE [parent |-> FALSE, command |-> NoCommand, messages |-> own]

\* ------------------------------------------------------------- agent nodes
\* the supervisor's answer is not written to the transcript
call_supervisor_no_update(state, d) ==
  LET response == react_agent("supervisor", state, d)
  IN IF response.parent THEN response.command
     ELSE Command(<<>>, <<"human">>, "supervisor", FALSE)

call_supervisor(state, d) ==
  LET response == react_agent("supervisor", state, d)
  IN IF response.parent THEN response.command
     ELSE Command(response.messages, <<"human">>, "supervisor", FALSE)

call_flights_advisor(state, d) ==
  LET response == react_agent("flights_advisor", state, d)
  IN IF response.parent THEN response.command
     ELSE Command(response.messages, <<"human">>, "flights_advisor", FALSE)

\* a turn without handoff goes back to the supervisor
call_hotel_advisor_to_supervisor(state, d) ==
  LET response == react_agent("hotel_advisor", state, d)
  IN IF response.parent THEN response.command
     ELSE Command(response.messages, <<"supervisor">>, "hotel_advisor", FALSE)

call_hotel_advisor(state, d) ==
  LET response == react_agent("hotel_advisor", state, d)
  IN IF response.parent THEN response.command
     ELSE Command(response.messages, <<"human">>, "hotel_advisor", FALSE)

\* --------------------------------------------------------------- human node
\* the destinations the signature of human_node declares:
\* Command[Literal["hotel_advisor", "flights_advisor", "human"]]
human_node_destinations == {"hotel_advisor", "flights_advisor", "human"}

\* langgraph_triggers[0].split(":")[0]: the kind of the channel, not its source
active_agent_of_kind(trigger) == trigger[1]

\* langgraph_triggers[0].split(":")[1]
active_agent_of(trigger) == trigger[2]

\* the resume target is fixed instead of recovered from the trigger
human_node_to_supervisor(state, langgraph_triggers, resume_value) ==
  IF state = <<>> THEN [kind |-> "raise", value |-> "IndexError", command |-> NoCommand]
  ELSE LET message == state[Len(state)].content
       IN IF resume_value = NoInput
          THEN [kind |-> "interrupt", value |-> message, command |-> NoCommand]
          ELSE IF Len(langgraph_triggers) # 1
          THEN [kind |-> "raise", value |-> "AssertionError", command |-> NoCommand]
          ELSE [kind |-> "command", value |-> message,
                command |-> Command(<<HumanMessage(resume_value)>>, <<"supervisor">>,
                                    "human", FALSE)]

\* the interrupt shows the first message of the transcript
human_node_first_message(state, langgraph_triggers, resume_value) ==
  IF state = <<>> THEN [kind |-> "raise", value |-> "IndexError", command |-> NoCommand]
  ELSE LET message == state[1].content
       IN IF resume_value = NoInput
          THEN [kind |-> "interrupt", value |-> message, command |-> NoCommand]
          ELSE IF Len(langgraph_triggers) # 1
          THEN [kind |-> "raise", value |-> "AssertionError", command |-> NoCommand]
          ELSE [kind |-> "command", value |-> message,
                command |-> Command(<<HumanMessage(resume_value)>>,
                                    <<active_agent_of(langgraph_triggers[1])>>,
                                    "human", FALSE)]

\* the number of triggers is not checked: the first one is taken
human_node_guess(state, langgraph_triggers, resume_value) ==
  IF state = <<>> THEN [kind |-> "raise", value |-> "IndexError", command |-> NoCommand]
  ELSE LET message == state[Len(state)].content
       IN IF resume_value = NoInput
          THEN [kind |-> "interrupt", value |-> message, command |-> NoCommand]
          ELSE IF Len(langgraph_triggers) = 0
          THEN [kind |-> "raise", value |-> "IndexError", command |-> NoCommand]
          ELSE [kind |-> "command", value |-> message,
                command |-> Command(<<HumanMessage(resume_value)>>,
                                    <<active_agent_of(langgraph_triggers[1])>>,
                                    "human", FALSE)]

\* the message appended on resume carries the prompt, not the input
human_node_echo(state, langgraph_triggers, resume_value) ==
  IF state = <<>> THEN [kind |-> "raise", value |-> "IndexError", command |-> NoCommand]
  ELSE LET message == state[Len(state)].content
       IN IF resume_value = NoInput
          THEN [kind |-> "interrupt", value |-> message, command |-> NoCommand]
          ELSE IF Len(langgraph_triggers) # 1
          THEN [kind |-> "raise", value |-> "AssertionError", command |-> NoCommand]
          ELSE [kind |-> "command", value |-> message,
                command |-> Command(<<HumanMessage(message)>>,
                                    <<active_agent_of(langgraph_triggers[1])>>,
                                    "human", FALSE)]

human_node(state, langgraph_triggers, resume_value) ==
  IF state = <<>> THEN [kind |-> "raise", value |-> "IndexError", command |-> NoCommand]
  ELSE LET message == state[Len(state)].content
       IN IF resume_value = NoInput
          THEN [kind |-> "interrupt", value |-> message, command |-> NoCommand]
          ELSE IF Len(langgraph_triggers) # 1
          THEN [kind |-> "raise", value |-> "AssertionError", command |-> NoCommand]
          ELSE [kind |-> "command", value |-> message,
                command |-> Command(<<HumanMessage(resume_value)>>,
                                    <<active_agent_of(langgraph_triggers[1])>>,
                                    "human", FALSE)]

\* ------------------------------------------------------------------ actions
Runnable(thread_id, node) ==
  /\ phase = "ready"
  /\ status[thread_id] = "running"
  /\ steps[thread_id] < RecursionLimit
  /\ \E i \in 1..Len(get_state(thread_id).next) : get_state(thread_id).next[i] = node

\* one super-step that ends with a Command
Advance(thread_id, c, requests) ==
  /\ asked' = [asked EXCEPT ![thread_id] = requests]
  /\ storage' = put(storage, thread_id, ApplyCommand(get_tuple(storage, thread_id), c))
  /\ steps' = [steps EXCEPT ![thread_id] = @ + 1]
  /\ cmd' = [cmd EXCEPT ![thread_id] = c]
  /\ UNCHANGED <<status, output, tools, phase>>

\* the input is always sent as a new message, also to a suspended thread
InvokeGraph_always_fresh(thread_id, user_input) ==
  /\ phase = "ready"
  /\ status[thread_id] # "running"
  /\ StoredMessages(Threads) < MaxMsgs
  /\ resume' = [resume EXCEPT ![thread_id] = NoInput]
  /\ storage' = put(storage, thread_id,
       [messages |-> add_messages(get_state(thread_id).values, <<HumanMessage(user_input)>>),
        channels |-> {StartChannel(e[2]) : e \in {x \in edges : x[1] = START}}])
  /\ status' = [status EXCEPT ![thread_id] = "running"]
  /\ steps' = [steps EXCEPT ![thread_id] = 0]
  /\ output' = [output EXCEPT ![thread_id] = NoOutput]
  /\ UNCHANGED <<cmd, asked, tools, phase>>

\* the input is a resume whenever some node is pending
InvokeGraph_resume_if_pending(thread_id, user_input) ==
  /\ phase = "ready"
  /\ status[thread_id] # "running"
  /\ StoredMessages(Threads) < MaxMsgs
  /\ LET state == get_state(thread_id)
     IN IF Len(state.next) > 0
        THEN /\ resume' = [resume EXCEPT ![thread_id] = user_input]
             /\ UNCHANGED storage
        ELSE /\ user_input # NoInput
             /\ resume' = [resume EXCEPT ![thread_id] = NoInput]
             /\ storage' = put(storage, thread_id,
                  [messages |-> add_messages(state.values, <<HumanMessage(user_input)>>),
                   channels |-> {StartChannel(e[2]) : e \in {x \in edges : x[1] = START}}])
  /\ status' = [status EXCEPT ![thread_id] = "running"]
  /\ steps' = [steps EXCEPT ![thread_id] = 0]
  /\ output' = [output EXCEPT ![thread_id] = NoOutput]
  /\ UNCHANGED <<cmd, asked, tools, phase>>

\* a fresh input schedules the entry node next to what was left pending
InvokeGraph_keeps_pending(thread_id, user_input) ==
  /\ phase = "ready"
  /\ status[thread_id] # "running"
  /\ StoredMessages(Threads) < MaxMsgs
  /\ LET state == get_state(thread_id)
     IN IF Len(state.next) > 0 /\ state.next[1] = "human"
        THEN /\ resume' = [resume EXCEPT ![thread_id] = user_input]
             /\ UNCHANGED storage
        ELSE /\ user_input # NoInput
             /\ resume' = [resume EXCEPT ![thread_id] = NoInput]
             /\ storage' = put(storage, thread_id,
                  [messages |-> add_messages(state.values, <<HumanMessage(user_input)>>),
                   channels |-> get_tuple(storage, thread_id).channels
                                  \cup {StartChannel(e[2]) : e \in {x \in edges : x[1] = START}}])
  /\ status' = [status EXCEPT ![thread_id] = "running"]
  /\ steps' = [steps EXCEPT ![thread_id] = 0]
  /\ output' = [output EXCEPT ![thread_id] = NoOutput]
  /\ UNCHANGED <<cmd, asked, tools, phase>>

\* invoke_graph is entered while the previous call on the thread still runs
InvokeGraph_reentrant(thread_id, user_input) ==
  /\ phase = "ready"
  /\ StoredMessages(Threads) < MaxMsgs
  /\ LET state == get_state(thread_id)
     IN IF Len(state.next) > 0 /\ state.next[1] = "human"
        THEN /\ resume' = [resume EXCEPT ![thread_id] = user_input]
             /\ UNCHANGED storage
        ELSE /\ user_input # NoInput
             /\ resume' = [resume EXCEPT ![thread_id] = NoInput]
             /\ storage' = put(storage, thread_id,
                  [messages |-> add_messages(state.values, <<HumanMessage(user_input)>>),
                   channels |-> {StartChannel(e[2]) : e \in {x \in edges : x[1] = START}}])
  /\ status' = [status EXCEPT ![thread_id] = "running"]
  /\ steps' = [steps EXCEPT ![thread_id] = 0]
  /\ output' = [output EXCEPT ![thread_id] = NoOutput]
  /\ UNCHANGED <<cmd, asked, tools, phase>>

\* invoke_graph up to the call of graph.stream
InvokeGraph(thread_id, user_input) ==
  /\ phase = "ready"
  /\ status[thread_id] # "running"
  /\ StoredMessages(Threads) < MaxMsgs
  /\ LET state == get_state(thread_id)
     IN IF Len(state.next) > 0 /\ state.next[1] = "human"
        THEN /\ resume' = [resume EXCEPT ![thread_id] = user_input]
             /\ UNCHANGED storage
        ELSE /\ user_input # NoInput
             /\ resume' = [resume EXCEPT ![thread_id] = NoInput]
             /\ storage' = put(storage, thread_id,
                  [messages |-> add_messages(state.values, <<HumanMessage(user_input)>>),
                   channels |-> {StartChannel(e[2]) : e \in {x \in edges : x[1] = START}}])
  /\ status' = [status EXCEPT ![thread_id] = "running"]
  /\ steps' = [steps EXCEPT ![thread_id] = 0]
  /\ output' = [output EXCEPT ![thread_id] = NoOutput]
  /\ UNCHANGED <<cmd, asked, tools, phase>>

CallSupervisor(thread_id) ==
  /\ Runnable(thread_id, "supervisor")
  /\ \E d \in Decisions("supervisor") :
       \E c \in {call_supervisor(get_state(thread_id).values, d)} :
         Advance(thread_id, c, d.requests)
  /\ UNCHANGED resume

CallFlightsAdvisor(thread_id) ==
  /\ Runnable(thread_id, "flights_advisor")
  /\ \E d \in Decisions("flights_advisor") :
       \E c \in {call_flights_advisor(get_state(thread_id).values, d)} :
         Advance(thread_id, c, d.requests)
  /\ UNCHANGED resume

CallHotelAdvisor(thread_id) ==
  /\ Runnable(thread_id, "hotel_advisor")
  /\ \E d \in Decisions("hotel_advisor") :
       \E c \in {call_hotel_advisor(get_state(thread_id).values, d)} :
         Advance(thread_id, c, d.requests)
  /\ UNCHANGED resume

\* the failed super-step is filed as done: its trigger is consumed
NodeFails_commits(thread_id) ==
  /\ \E a \in Agents : Runnable(thread_id, a)
  /\ status' = [status EXCEPT ![thread_id] = "error"]
  /\ storage' = put(storage, thread_id,
       [messages |-> get_tuple(storage, thread_id).messages, channels |-> {}])
  /\ UNCHANGED <<resume, steps, output, cmd, asked, tools, phase>>

\* the reasoning engine or a tool of the agent raises: the super-step is not
\* applied and graph.stream raises to the caller
NodeFails(thread_id) ==
  /\ \E a \in Agents : Runnable(thread_id, a)
  /\ status' = [status EXCEPT ![thread_id] = "error"]
  /\ UNCHANGED <<storage, resume, steps, output, cmd, asked, tools, phase>>

HumanNode(thread_id) ==
  /\ Runnable(thread_id, "human")
  /\ \E cp \in {get_tuple(storage, thread_id)} :
     \E r \in {human_node(cp.messages, SeqOfSet(TriggersOf(cp, "human")), resume[thread_id])} :
        CASE r.kind = "interrupt" ->
               /\ status' = [status EXCEPT ![thread_id] = "interrupt"]
               /\ output' = [output EXCEPT ![thread_id] = r.value]
               /\ UNCHANGED <<storage, resume, steps, cmd, asked, tools, phase>>
          [] r.kind = "raise" ->
               /\ status' = [status EXCEPT ![thread_id] = "error"]
               /\ UNCHANGED <<storage, resume, steps, output, cmd, asked, tools, phase>>
          [] r.kind = "command" ->
               /\ Advance(thread_id, r.command, <<>>)
               /\ resume' = [resume EXCEPT ![thread_id] = NoInput]

\* the engine does not stop on a used-up budget
OutOfSteps_never(thread_id) ==
  /\ FALSE
  /\ UNCHANGED vars

\* the budget of super-steps is used up with a node still pending
OutOfSteps(thread_id) ==
  /\ phase = "ready"
  /\ status[thread_id] = "running"
  /\ steps[thread_id] >= RecursionLimit
  /\ status' = [status EXCEPT ![thread_id] = "error"]
  /\ UNCHANGED <<storage, resume, steps, output, cmd, asked, tools, phase>>

\* the tool lists of the agent modules are built when the modules are imported
MakeHandoffTool(agent, agent_name) ==
  /\ phase = "assembling"
  /\ agent_name \notin tools[agent]
  /\ LET tool == make_handoff_tool(agent_name)
     IN IF tool.error # "none"
        THEN /\ phase' = tool.error
             /\ UNCHANGED tools
        ELSE /\ tools' = [tools EXCEPT ![agent] = @ \cup {tool.target}]
             /\ UNCHANGED phase
  /\ UNCHANGED <<storage, status, resume, steps, output, cmd, asked>>

\* builder.compile(checkpointer=checkpointer), after the agent modules are loaded
Compile ==
  /\ phase = "assembling"
  /\ tools = DeclaredTools
  /\ phase' = "ready"
  /\ UNCHANGED <<storage, status, resume, steps, output, cmd, asked, tools>>

Init ==
  /\ storage = <<>>
  /\ status = [t \in Threads |-> "idle"]
  /\ resume = [t \in Threads |-> NoInput]
  /\ steps = [t \in Threads |-> 0]
  /\ output = [t \in Threads |-> NoOutput]
  /\ cmd = [t \in Threads |-> NoCommand]
  /\ asked = [t \in Threads |-> <<>>]
  /\ tools = [a \in Agents |-> {}]
  /\ phase = "assembling"

Next ==
  \/ \E a \in Agents : \E n \in DeclaredTools[a] \cup UnknownNames : MakeHandoffTool(a, n)
  \/ Compile
  \/ \E t \in Threads, u \in Inputs \cup {NoInput} : InvokeGraph(t, u)
  \/ \E t \in Threads : CallSupervisor(t)
  \/ \E t \in Threads : CallFlightsAdvisor(t)
  \/ \E t \in Threads : CallHotelAdvisor(t)
  \/ \E t \in Threads : HumanNode(t)
  \/ \E t \in Threads : NodeFails(t)
  \/ \E t \in Threads : OutOfSteps(t)

Spec == Init /\ [][Next]_vars

\* graph.stream runs the pending node of a running call; nothing in the engine
\* makes a node fail, so failure is left out of the fairness condition
Turn(t) ==
  \/ CallSupervisor(t)
  \/ CallFlightsAdvisor(t)
  \/ CallHotelAdvisor(t)
  \/ HumanNode(t)
  \/ OutOfSteps(t)

\* The program as its __main__ runs it: one thread_id, one call after the other.
MainThread == "t1"
NextMain ==
  \/ \E a \in Agents : \E n \in DeclaredTools[a] \cup UnknownNames : MakeHandoffTool(a, n)
  \/ Compile
  \/ \E u \in Inputs \cup {NoInput} : InvokeGraph(MainThread, u)
  \/ CallSupervisor(MainThread)
  \/ CallFlightsAdvisor(MainThread)
  \/ CallHotelAdvisor(MainThread)
  \/ HumanNode(MainThread)
  \/ NodeFails(MainThread)
  \/ OutOfSteps(MainThread)

FairSpec == Init /\ [][NextMain]_vars /\ WF_vars(Turn(MainThread))

\* human_node by itself: it is run once on a transcript, a set of triggers and
\* a resume value drawn from bounded sets, as the node to run of MainThread.
ProbeMessages ==
  {HumanMessage(u) : u \in Inputs} \cup {AIMessage(r, a) : r \in Replies, a \in Agents}
ProbeTranscripts ==
  {[i \in 1..Len(q) |-> [q[i] EXCEPT !.id = i]] :
     q \in UNION {[1..k -> ProbeMessages] : k \in 0..MaxProbeLen}}
ProbeTriggers == SUBSET {BranchChannel(a, "human") : a \in Agents}

InitHuman ==
  /\ \E m \in ProbeTranscripts, ch \in ProbeTriggers :
       storage = put(<<>>, MainThread, [messages |-> m, channels |-> ch])
  /\ status = [t \in Threads |-> IF t = MainThread THEN "running" ELSE "idle"]
  /\ resume \in [Threads -> Inputs \cup {NoInput}]
  /\ \A t \in Threads : t # MainThread => resume[t] = NoInput
  /\ steps = [t \in Threads |-> 0]
  /\ output = [t \in Threads |-> NoOutput]
  /\ cmd = [t \in Threads |-> NoCommand]
  /\ asked = [t \in Threads |-> <<>>]
  /\ tools = DeclaredTools
  /\ phase = "ready"

NextHuman == HumanNode(MainThread)

SpecHuman == InitHuman /\ [][NextHuman]_vars

TypeOK ==
  /\ DOMAIN storage \subseteq Threads
  /\ \A t \in Threads : status[t] \in {"idle", "running", "interrupt", "error"}
  /\ \A t \in Threads : steps[t] \in 0..RecursionLimit
  /\ phase \in {"assembling", "ready", "ConfigurationError"}

\* ------------------------------------------------------------------ claims
\* a super-step of thread t ended with a Command in this step
Stepped(t) == steps'[t] = steps[t] + 1
\* graph.stream was entered on thread t in this step
Entered(t) == status[t] # "running" /\ status'[t] = "running"
Suspended(t) == get_state(t).next = <<"human">>

\* C1: when the human node is resumed, its Command goes to the agent whose
\* Command was the last one applied and had sent control to the human node;
\* that agent is then the only pending node.
C1_ResumeReturnsToSuspender ==
  [][\A t \in Threads :
       (Stepped(t) /\ cmd'[t].node = "human")
         => /\ cmd[t].node \in Agents
            /\ cmd[t].goto = <<"human">>
            /\ cmd'[t].goto = <<cmd[t].node>>
            /\ get_state(t)'.next = <<cmd[t].node>>]_vars

\* supervisor handed off to flights_advisor, which went to human; the resume
\* went to flights_advisor
C1_Witness ==
  \E t \in Threads :
    /\ cmd[t].node = "human"
    /\ cmd[t].goto = <<"flights_advisor">>
    /\ get_state(t).next = <<"flights_advisor">>

\* C2: the Command of an agent node whose turn had no handoff goes to human.
C2_NoHandoffGoesToHuman ==
  \A t \in Threads :
    (cmd[t].node \in Agents /\ ~cmd[t].handoff) => cmd[t].goto = <<"human">>

C2_Witness ==
  \E t \in Threads :
    cmd[t].node = "hotel_advisor" /\ ~cmd[t].handoff /\ asked[t] = <<>>

\* C3: a node execution yields one Command with one destination: when the
\* reasoning engine asks for two handoffs in a turn, the first one is the
\* transition and a single node is pending afterwards.
C3_OneTransitionPerTurn ==
  \A t \in Threads :
    /\ Len(get_state(t).next) <= 1
    /\ cmd[t].node # "none" => Len(cmd[t].goto) = 1
    /\ (cmd[t].node \in Agents /\ Len(asked[t]) >= 2) => cmd[t].goto = <<asked[t][1]>>

C3_Witness ==
  \E t \in Threads :
    /\ cmd[t].node = "supervisor"
    /\ asked[t] = <<"flights_advisor", "hotel_advisor">>
    /\ get_state(t).next = <<"flights_advisor">>

C5_FreshThreadStartsAtSupervisor ==
  [][\A t \in Threads :
       (t \notin DOMAIN storage /\ Entered(t))
         => /\ get_state(t).values = <<>>
            /\ Len(get_state(t)'.values) = 1
            /\ get_state(t)'.values[1].type = "human"
            /\ get_state(t)'.values[1].content \in Inputs
            /\ get_state(t)'.next = <<"supervisor">>]_vars

C5_Witness ==
  \E t \in Threads :
    /\ status[t] = "running"
    /\ steps[t] = 0
    /\ Len(get_state(t).values) = 1
    /\ get_state(t).next = <<"supervisor">>

\* C6: a call that returns without an error returns at the human node: the
\* pending node is human and the value handed out is the content of the last
\* message of the transcript.
C6_ReturnsOnlyAtHuman ==
  \A t \in Threads :
    status[t] = "interrupt"
      => /\ Suspended(t)
         /\ get_state(t).values # <<>>
         /\ output[t] = get_state(t).values[Len(get_state(t).values)].content

C6_Witness ==
  \E t \in Threads :
    /\ status[t] = "interrupt"
    /\ Len(get_state(t).values) >= 2
    /\ output[t] \in Replies

\* C7: a running call ends: it reaches the interrupt of the human node or it
\* stops with an error, at the latest when the budget of super-steps is used up.
C7_CallTerminates ==
  \A t \in Threads :
    (status[t] = "running") ~> (status[t] = "interrupt" \/ status[t] = "error")

\* a chain of handoffs used up the budget
C7_Witness ==
  \E t \in Threads :
    /\ status[t] = "error"
    /\ steps[t] = RecursionLimit
    /\ cmd[t].handoff

\* C8: a call on a suspended thread with no input leaves the pending node and
\* the number of messages as they were, and ends suspended again.
C8_IdempotentResume ==
  [][\A t \in Threads :
       /\ (Entered(t) /\ Suspended(t) /\ resume'[t] = NoInput)
            => /\ get_state(t)'.next = get_state(t).next
               /\ Len(get_state(t)'.values) = Len(get_state(t).values)
       /\ (status[t] = "running" /\ steps[t] = 0 /\ Suspended(t) /\ resume[t] = NoInput)
            => /\ get_state(t)'.next = get_state(t).next
               /\ Len(get_state(t)'.values) = Len(get_state(t).values)
               /\ status'[t] \in {"running", "interrupt"}]_vars

\* a call with no input is running on a thread that was suspended
C8_Witness ==
  \E t \in Threads :
    /\ status[t] = "running"
    /\ steps[t] = 0
    /\ resume[t] = NoInput
    /\ Suspended(t)
    /\ Len(get_state(t).values) >= 2

\* C9: a step changes the checkpoint and the call state of one thread at most,
\* and a call on a thread that is not suspended takes the fresh-input path
\* whatever the other thread's checkpoint is.
Local(t) ==
  <<t \in DOMAIN storage, get_tuple(storage, t), status[t], resume[t],
    steps[t], output[t], cmd[t], asked[t]>>

C9_ThreadsAreIsolated ==
  [][/\ \A t1, t2 \in Threads :
          (t1 # t2 /\ Local(t1)' # Local(t1)) => Local(t2)' = Local(t2)
     /\ \A t \in Threads :
          (Entered(t) /\ ~Suspended(t))
            => Len(get_tuple(storage, t)'.messages) = Len(get_tuple(storage, t).messages) + 1]_vars

\* one thread is suspended with a longer transcript while the other runs
C9_Witness ==
  \E t1, t2 \in Threads :
    /\ t1 # t2
    /\ status[t1] = "interrupt"
    /\ status[t2] = "running"
    /\ Len(get_tuple(storage, t1).messages) > Len(get_tuple(storage, t2).messages)
    /\ steps[t2] > 0

\* C10: a handoff tool with a target outside the declared nodes is refused
\* when the tool lists are built: no tool list ever holds such a target, and
\* no turn runs unless the graph was compiled.
C10_UnknownTargetFailsAtConstruction ==
  /\ \A a \in Agents : tools[a] \subseteq Nodes
  /\ phase # "ready" => (storage = <<>> /\ \A t \in Threads : status[t] = "idle")

C10_Witness ==
  /\ phase = "ConfigurationError"
  /\ storage = <<>>

\* C11: when a call ends with an error, the checkpoint is the one left by the
\* last Command applied: the transcript and the pending triggers are as they
\* were, the node that failed is still pending, and the caller gets the error.
C11_FailureKeepsLastCheckpoint ==
  [][\A t \in Threads :
       (status[t] = "running" /\ status'[t] = "error")
         => /\ get_tuple(storage, t)' = get_tuple(storage, t)
            /\ get_state(t)'.next = get_state(t).next
            /\ get_state(t)'.next # <<>>
            /\ cmd'[t] = cmd[t]]_vars

\* supervisor's handoff was applied, then flights_advisor failed
C11_Witness ==
  \E t \in Threads :
    /\ status[t] = "error"
    /\ steps[t] = 1
    /\ cmd[t].node = "supervisor"
    /\ get_state(t).next = <<"flights_advisor">>
    /\ Len(get_state(t).values) = 2

\* C12: when the human node, resumed, finds a number of triggers other than
\* one, it fails and gives no Command: nothing is applied and no destination
\* is picked.
C12_TriggerCountIsChecked ==
  [][Cardinality(TriggersOf(get_tuple(storage, MainThread), "human")) # 1
       => /\ cmd' = cmd
          /\ storage' = storage
          /\ resume[MainThread] # NoInput => status'[MainThread] = "error"]_vars

\* the node was resumed with two triggers pending and raised
C12_Witness ==
  /\ Cardinality(TriggersOf(get_tuple(storage, MainThread), "human")) = 2
  /\ get_tuple(storage, MainThread).messages # <<>>
  /\ resume[MainThread] # NoInput
  /\ status[MainThread] = "error"
  /\ cmd[MainThread] = NoCommand

\* C13: a call takes its path from the checkpoint: on a thread whose pending
\* node is human the input is the resume value and the checkpoint is left as
\* it is; on any other thread (no checkpoint, or a node left pending by a
\* failed call) the input is appended as one human message and supervisor is
\* the node to run.
C13_InputPathFromCheckpoint ==
  [][\A t \in Threads :
       Entered(t)
         => IF Len(get_state(t).next) > 0 /\ get_state(t).next[1] = "human"
            THEN /\ get_tuple(storage, t)' = get_tuple(storage, t)
                 /\ resume'[t] \in Inputs \cup {NoInput}
            ELSE /\ resume'[t] = NoInput
                 /\ Len(get_state(t)'.values) = Len(get_state(t).values) + 1
                 /\ SubSeq(get_state(t)'.values, 1, Len(get_state(t).values)) = get_state(t).values
                 /\ get_state(t)'.values[Len(get_state(t)'.values)].type = "human"
                 /\ get_state(t)'.values[Len(get_state(t)'.values)].content \in Inputs
                 /\ get_state(t)'.next = <<"supervisor">>]_vars

\* a new input on a thread where flights_advisor was left pending by a failure
C13_Witness ==
  \E t \in Threads :
    /\ status[t] = "running"
    /\ steps[t] = 0
    /\ resume[t] = NoInput
    /\ cmd[t].goto = <<"flights_advisor">>
    /\ Len(get_state(t).values) = 3
    /\ get_state(t).values[3].type = "human"
    /\ get_state(t).next = <<"supervisor">>

\* C14: the Command of a resumed human node appends one message to the
\* transcript, a human message whose content is the resume value, and leaves
\* the messages before it as they were; it goes to the agent named by the
\* pending trigger.
C14_ResumeAppendsOneHumanMessage ==
  [][\A t \in Threads :
       (Stepped(t) /\ cmd'[t].node = "human")
         => LET old == get_state(t).values
                new == get_state(t)'.values
            IN /\ Len(new) = Len(old) + 1
               /\ SubSeq(new, 1, Len(old)) = old
               /\ new[Len(new)].type = "human"
               /\ resume[t] \in Inputs
               /\ new[Len(new)].content = resume[t]
               /\ \E a \in Agents :
                    /\ TriggersOf(get_tuple(storage, t), "human") = {BranchChannel(a, "human")}
                    /\ cmd'[t].goto = <<a>>]_vars

C14_Witness ==
  \E t \in Threads :
    /\ cmd[t].node = "human"
    /\ cmd[t].goto = <<"supervisor">>
    /\ Len(get_state(t).values) = 3
    /\ get_state(t).values[2].type = "ai"
    /\ get_state(t).values[3].type = "human"
    /\ get_state(t).values[3].content \in Inputs

\* C15: the destination of every Command the engine applied is a node of the
\* declared graph, every pending trigger is for a declared node, and the
\* destination of the human node's Command is one of the three agents.
C15_DestinationsAreDeclaredNodes ==
  \A t \in Threads :
    /\ \A i \in 1..Len(cmd[t].goto) : cmd[t].goto[i] \in Nodes
    /\ \A ch \in get_tuple(storage, t).channels : Target(ch) \in Nodes
    /\ cmd[t].node = "human"
         => \A i \in 1..Len(cmd[t].goto) : cmd[t].goto[i] \in Agents

C15_Witness ==
  \E t \in Threads :
    /\ cmd[t].node = "human"
    /\ cmd[t].goto = <<"hotel_advisor">>
    /\ get_tuple(storage, t).channels = {BranchChannel("human", "hotel_advisor")}

C17_AtMostOneNodePending ==
  \A t \in Threads :
    /\ Cardinality(get_tuple(storage, t).channels) <= 1
    /\ Len(get_state(t).next) <= 1
    /\ ~ \E a \in Agents : TriggersOf(get_tuple(storage, t), a) # {}
                             /\ TriggersOf(get_tuple(storage, t), "human") # {}

\* a fresh input on a thread where a failure had left an advisor pending
C17_Witness ==
  \E t \in Threads :
    /\ status[t] = "running"
    /\ steps[t] = 0
    /\ cmd[t].handoff
    /\ cmd[t].goto \in {<<"hotel_advisor">>, <<"flights_advisor">>}
    /\ get_state(t).next = <<"supervisor">>

\* C18: the transcript of a thread is append-only over every step (agent
\* execution, handoff, suspension, resume, fresh input, failure): the
\* transcript before the step is a prefix of the transcript after it.
C18_TranscriptIsAppendOnly ==
  [][\A t \in Threads :
       /\ Len(get_state(t)'.values) >= Len(get_state(t).values)
       /\ SubSeq(get_state(t)'.values, 1, Len(get_state(t).values)) = get_state(t).values]_vars

\* a transcript that went through a fresh input, a handoff, an advisor's
\* answer, a suspension and a resume
C18_Witness ==
  \E t \in Threads :
    /\ cmd[t].node = "human"
    /\ Len(get_state(t).values) = 4
    /\ get_state(t).values[1].type = "human"
    /\ get_state(t).values[2].name = "supervisor"
    /\ get_state(t).values[3].name \in {"hotel_advisor", "flights_advisor"}
    /\ get_state(t).values[4].type = "human"
    /\ get_state(t).values[4].content \in Inputs

\* C19: whenever the human node is scheduled (about to execute, suspended, or
\* re-executing on a resume) the transcript is non-empty, and its last
\* message is an AI message of the agent that transferred control to the
\* human node, never a human message.
C19_HumanReadsTheAgentsLastMessage ==
  \A t \in Threads :
    \A ch \in TriggersOf(get_tuple(storage, t), "human") :
      LET messages == get_state(t).values
      IN /\ Len(messages) > 0
         /\ messages[Len(messages)].type = "ai"
         /\ messages[Len(messages)].name = active_agent_of(ch)
         /\ cmd[t].node = active_agent_of(ch)

\* the human node re-executes on a resume after a turn of the hotel advisor
C19_Witness ==
  \E t \in Threads :
    /\ Runnable(t, "human")
    /\ resume[t] \in Inputs
    /\ get_state(t).values[Len(get_state(t).values)].name = "hotel_advisor"
    /\ output[t] = NoOutput

\* C20: transfers follow the fixed handoff topology: the supervisor transfers
\* only to flights_advisor, hotel_advisor or human; flights_advisor and
\* hotel_advisor transfer only to supervisor or human; no advisor transfers to
\* the other advisor and no agent transfers to itself.
C20_HandoffTopology ==
  \A t \in Threads :
    \A i \in 1..Len(cmd[t].goto) :
      /\ cmd[t].node = "supervisor"
           => cmd[t].goto[i] \in {"flights_advisor", "hotel_advisor", "human"}
      /\ cmd[t].node \in {"flights_advisor", "hotel_advisor"}
           => cmd[t].goto[i] \in {"supervisor", "human"}
      /\ cmd[t].node \in Agents => cmd[t].goto[i] # cmd[t].node
      /\ (cmd[t].node \in Agents /\ cmd[t].goto[i] # "human") <=> cmd[t].handoff

\* an advisor handed control back to the supervisor
C20_Witness ==
  \E t \in Threads :
    /\ cmd[t].node = "hotel_advisor"
    /\ cmd[t].handoff
    /\ cmd[t].goto = <<"supervisor">>
    /\ get_state(t).next = <<"supervisor">>

\* C21: the destination of every Command returned by human_node is within
\* the set its signature declares, {hotel_advisor, flights_advisor, human},
\* also when the supervisor was the agent that transferred control to the
\* human node.
C21_HumanDestinationWithinSignature ==
  \A t \in Threads :
    cmd[t].node = "human"
      => \A i \in 1..Len(cmd[t].goto) : cmd[t].goto[i] \in human_node_destinations

\* the supervisor answered without a handoff, the thread was suspended and
\* resumed, and human_node returned its Command
C21_Witness ==
  \E t \in Threads :
    /\ cmd[t].node = "human"
    /\ cmd[t].goto = <<"supervisor">>
    /\ Len(get_state(t).values) = 3
    /\ get_state(t).values[2].name = "supervisor"
    /\ get_state(t).values[3].type = "human"

====
